---- MODULE Spec2Model ----
(***************************************************************************)
(* Model of oslo.serialization: the msgpack handler registry               *)
(* (msgpackutils.HandlerRegistry), the built-in extension handlers, the    *)
(* binary codec hooks (_serializer / _unserializer), the JSON primitive    *)
(* reducer (jsonutils.to_primitive), the JSON text codec (jsonutils.dumps, *)
(* dump, dump_as_bytes) and the serializer object JSONSerializer.          *)
(***************************************************************************)
EXTENDS Integers, Sequences, FiniteSets, TLC

VARIABLES regs, call

vars == <<regs, call>>

(***************************************************************************)
(* Bounds of the model.                                                    *)
(***************************************************************************)
\* largest number of handlers a modelled registry is grown to
MaxHandlers == 3

\* the same, for a registry and its copy
MaxCopyHandlers == 2

\* handlers registered on a copy of the default registry
MaxExtraHandlers == 1

\* nested to_primitive calls the interpreter allows before it raises
\* RecursionError (sys.getrecursionlimit(), scaled down)
RecursionLimit == 15

\* largest max_depth a caller of to_primitive passes
MaxMaxDepth == 5

\* longest LevelsGenerator chain reduced
MaxLevels == 4

(***************************************************************************)
(* HandlerRegistry (msgpackutils.py)                                       *)
(***************************************************************************)
Interval(min_value, max_value) ==
    [min_value |-> min_value, max_value |-> max_value]

reserved_extension_range == Interval(0, 32)

non_reserved_extension_range == Interval(33, 127)

\* the registries of the model: "r" is constructed empty, "c" is made by copy
RegIds == {"r", "c"}

\* a slot that holds no registry yet
NoRegistry == [exists |-> FALSE]

\* HandlerRegistry.__init__ : empty mapping, zero count, not frozen.
\* handlers is the insertion-ordered dict ident -> list, kept as a sequence
\* of [ident, chain] entries in insertion order.  shared names the
\* identities whose list is the same list object as in the registry this
\* one was copied from (a new registry shares none).
HandlerRegistry ==
    [exists |-> TRUE, handlers |-> <<>>, num_handlers |-> 0, frozen |-> FALSE,
     shared |-> {}]

\* handler identities tried by the callers of register (in and out of range)
Idents == {-1, 0, 32, 33, 127, 128, 200}

\* the types the handlers of the registry model handle
HandlerTypes == {"T1", "T2"}

\* A handler object.  cls "Plain" has no copy() and no back-reference;
\* cls "Backref" is built with a registry and has copy(registry).
Handler(cls, identity, handles, registry) ==
    [cls |-> cls, identity |-> identity, handles |-> handles,
     registry |-> registry]

HandlersFor(r) ==
    { Handler("Plain", i, "T1", "none") : i \in Idents }
    \cup { Handler("Backref", i, "T2", r) : i \in Idents }

\* position of ident in the dict, 0 when absent
IndexOf(reg, ident) ==
    IF \E i \in 1..Len(reg.handlers) : reg.handlers[i].ident = ident
    THEN CHOOSE i \in 1..Len(reg.handlers) : reg.handlers[i].ident = ident
    ELSE 0

\* HandlerRegistry.__contains__
contains(reg, identity) == IndexOf(reg, identity) # 0

\* self._handlers[ident]
chain_of(reg, ident) == reg.handlers[IndexOf(reg, ident)].chain

\* HandlerRegistry.__len__
len(reg) == reg.num_handlers

\* the frozen test that opens register
is_frozen_never(reg) == FALSE

is_frozen(reg) == reg.frozen

\* the interval register selects from the reserved flag
ok_interval_swapped(reserved) ==
    IF reserved THEN non_reserved_extension_range
    ELSE reserved_extension_range

ok_interval(reserved) ==
    IF reserved THEN reserved_extension_range
    ELSE non_reserved_extension_range

\* existing_handlers.insert(0, handler)
insert_front_appends(chain, handler) == Append(chain, handler)

insert_front(chain, handler) == <<handler>> \o chain

\* a call that counts the handler before it validates it
rejected_after_count(reg, exc) ==
    [reg |-> [reg EXCEPT !.num_handlers = @ + 1], exc |-> exc]

\* raise ValueError(...): every raise of register precedes its writes
rejected(reg, exc) == [reg |-> reg, exc |-> exc]

\* HandlerRegistry.register: the registry after the call and the exception
\* raised ("none" when the call returns normally)
register(reg, handler, reserved, override) ==
    IF is_frozen(reg)
    THEN rejected(reg, "ValueError: frozen")
    ELSE
      LET ok == ok_interval(reserved)
          ident == handler.identity
      IN
        IF ident < ok.min_value
        THEN rejected(reg, "ValueError: identity too small")
        ELSE IF ident > ok.max_value
        THEN rejected(reg, "ValueError: identity too large")
        ELSE IF contains(reg, ident) /\ override
        THEN [reg |->
                [reg EXCEPT
                   !.handlers[IndexOf(reg, ident)].chain =
                       insert_front(@, handler),
                   !.num_handlers = @ + 1],
              exc |-> "none"]
        ELSE IF contains(reg, ident) /\ ~override
        THEN rejected(reg, "ValueError: already registered")
        ELSE [reg |->
                [reg EXCEPT
                   !.handlers = Append(@, [ident |-> ident,
                                           chain |-> <<handler>>]),
                   !.num_handlers = @ + 1],
              exc |-> "none"]

\* the handler classes that define copy(registry): the built-in handlers
\* constructed with a registry, and the application class "Backref"
CopyableClasses ==
    {"Backref", "DateTimeHandler", "SetHandler", "FrozenSetHandler",
     "XMLRPCDateTimeHandler", "DateHandler"}

\* a copy that leaves the delegate of the legacy-timestamp handler as it was
copy_handler_delegate_kept(h, c) ==
    IF h.cls \in CopyableClasses \ {"XMLRPCDateTimeHandler"}
    THEN [h EXCEPT !.registry = c]
    ELSE h

\* handler.copy(c) where the handler has one (hasattr(h, 'copy'))
copy_handler(h, c) ==
    IF h.cls \in CopyableClasses THEN [h EXCEPT !.registry = c] ELSE h

\* the copy's flag taken from the source whatever unfreeze says
copy_frozen_kept(reg, unfreeze) == reg.frozen

\* if not unfreeze and self.frozen: c.frozen = True
copy_frozen(reg, unfreeze) == ~unfreeze /\ reg.frozen

\* the lists of a copy that are list objects of the source: copy fills a
\* new list (cloned_handlers = []) for every identity
shared_lists_all(reg) ==
    { reg.handlers[i].ident : i \in 1..Len(reg.handlers) }

shared_lists(reg) == {}

\* a copy whose count goes up by one for every identity copied
copy_counts_identities(reg, c, unfreeze) ==
    [exists |-> TRUE,
     handlers |->
        [i \in 1..Len(reg.handlers) |->
            [ident |-> reg.handlers[i].ident,
             chain |-> [j \in 1..Len(reg.handlers[i].chain) |->
                           copy_handler(reg.handlers[i].chain[j], c)]]],
     num_handlers |-> Len(reg.handlers),
     frozen |-> copy_frozen(reg, unfreeze),
     shared |-> shared_lists(reg)]

\* HandlerRegistry.copy: c names the new registry object
copy(reg, c, unfreeze) ==
    [exists |-> TRUE,
     handlers |->
        [i \in 1..Len(reg.handlers) |->
            [ident |-> reg.handlers[i].ident,
             chain |-> [j \in 1..Len(reg.handlers[i].chain) |->
                           copy_handler(reg.handlers[i].chain[j], c)]]],
     num_handlers |-> LET RECURSIVE Sum(_)
                          Sum(i) == IF i = 0 THEN 0
                                    ELSE Sum(i - 1)
                                         + Len(reg.handlers[i].chain)
                      IN Sum(Len(reg.handlers)),
     frozen |-> copy_frozen(reg, unfreeze),
     shared |-> shared_lists(reg)]

\* the None that get and match return when no handler is found
NoHandler == [cls |-> "NoneType"]

\* a lookup that skips the front of the chain
get_behind_front(reg, identity) ==
    IF contains(reg, identity) /\ Len(chain_of(reg, identity)) > 1
    THEN chain_of(reg, identity)[2]
    ELSE NoHandler

\* HandlerRegistry.get: first handler of the chain, or None
get(reg, identity) ==
    IF contains(reg, identity) /\ Len(chain_of(reg, identity)) > 0
    THEN chain_of(reg, identity)[1]
    ELSE NoHandler

(***************************************************************************)
(* The registry as a state machine: callers register handlers, freeze      *)
(* (registry.frozen = True), copy and look up.                             *)
(***************************************************************************)
RegInit ==
    /\ regs = [r \in RegIds |-> IF r = "r" THEN HandlerRegistry
                                ELSE NoRegistry]
    /\ call = [op |-> "init"]

\* every list of a registry and of its copy taken to be one list object
same_list_always(other, pre, post, ident) ==
    IF /\ other.exists
       /\ contains(pre, ident)
       /\ contains(other, ident)
       /\ chain_of(post, ident) # chain_of(pre, ident)
    THEN [other EXCEPT
            !.handlers[IndexOf(other, ident)].chain = chain_of(post, ident)]
    ELSE other

\* the registry other once a call has turned the registry pre into post: an
\* insertion into a list object that other holds too shows in other
same_list(other, pre, post, ident) ==
    IF /\ other.exists
       /\ ident \in regs["c"].shared
       /\ contains(pre, ident)
       /\ contains(other, ident)
       /\ chain_of(post, ident) # chain_of(pre, ident)
    THEN [other EXCEPT
            !.handlers[IndexOf(other, ident)].chain = chain_of(post, ident)]
    ELSE other

Register(r, handler, reserved, override, cap) ==
    /\ regs[r].exists
    /\ LET res == register(regs[r], handler, reserved, override)
       IN /\ res.reg.num_handlers <= cap
          /\ regs' = [x \in RegIds |->
                        IF x = r THEN res.reg
                        ELSE same_list(regs[x], regs[r], res.reg,
                                       handler.identity)]
          /\ call' = [op |-> "register", r |-> r, handler |-> handler,
                      reserved |-> reserved, override |-> override,
                      pre |-> regs[r], exc |-> res.exc]

Freeze(r) ==
    /\ regs[r].exists
    /\ ~regs[r].frozen
    /\ regs' = [regs EXCEPT ![r].frozen = TRUE]
    /\ call' = [op |-> "freeze", r |-> r]

Copy(unfreeze) ==
    /\ regs["r"].exists
    /\ ~regs["c"].exists
    /\ regs' = [regs EXCEPT !["c"] = copy(regs["r"], "c", unfreeze)]
    /\ call' = [op |-> "copy", r |-> "r", unfreeze |-> unfreeze,
                pre |-> regs["r"]]

Get(r, identity) ==
    /\ regs[r].exists
    /\ call' = [op |-> "get", r |-> r, identity |-> identity,
                result |-> get(regs[r], identity)]
    /\ UNCHANGED regs

\* one registry, every identity of Idents
RegNext ==
    \/ \E reserved \in BOOLEAN, override \in BOOLEAN :
         \E handler \in HandlersFor("r") :
            Register("r", handler, reserved, override, MaxHandlers)
    \/ Freeze("r")
    \/ \E identity \in Idents : Get("r", identity)

SpecRegistry == RegInit /\ [][RegNext]_vars



(***************************************************************************)
(* Properties of the registry                                              *)
(***************************************************************************)
RegistrationErrors ==
    {"ValueError: frozen", "ValueError: identity too small",
     "ValueError: identity too large", "ValueError: already registered"}

\* the registry the last call acted on, as it is after the call
post == regs[call.r]

\* C1: every register call on a frozen registry fails with a registration
\* error, whatever the handler identity and the reserved/override flags.
C1_FrozenRejectsRegister ==
    (call.op = "register" /\ call.pre.frozen)
        => call.exc \in RegistrationErrors

\* a register call with a valid application identity reached a frozen registry
C1_Witness ==
    /\ call.op = "register"
    /\ call.pre.frozen
    /\ call.handler.identity = 33
    /\ ~call.reserved
    /\ ~contains(call.pre, 33)

\* C2: on an unfrozen registry a non-reserved registration is accepted only
\* for identities 33..127 and a reserved one only for 0..32; every identity
\* outside the range the reserved flag selects fails with a registration
\* error.
C2_RangeEnforced ==
    (call.op = "register" /\ ~call.pre.frozen)
        => LET id == call.handler.identity
               inRange == IF call.reserved THEN id \in 0..32
                          ELSE id \in 33..127
           IN /\ (call.exc = "none" => inRange)
              /\ (~inRange => call.exc \in RegistrationErrors)

\* identity 200 was registered as non-reserved on an unfrozen registry
C2_Witness ==
    /\ call.op = "register"
    /\ ~call.pre.frozen
    /\ call.handler.identity = 200
    /\ ~call.reserved
    /\ call.exc \in RegistrationErrors

\* C3: on an unfrozen registry, registering an in-range identity that already
\* has a chain fails without override; with override it succeeds, get returns
\* the new handler and the old handlers follow it in their previous order.
C3_OverridePrepends ==
    (/\ call.op = "register"
     /\ ~call.pre.frozen
     /\ call.handler.identity \in
           (IF call.reserved THEN 0..32 ELSE 33..127)
     /\ contains(call.pre, call.handler.identity))
        => IF call.override
           THEN /\ call.exc = "none"
                /\ get(post, call.handler.identity) = call.handler
                /\ chain_of(post, call.handler.identity)
                     = <<call.handler>>
                         \o chain_of(call.pre, call.handler.identity)
           ELSE call.exc = "ValueError: already registered"

\* an override was registered over a chain that already held two different
\* handlers
C3_Witness ==
    /\ call.op = "register"
    /\ call.override
    /\ call.exc = "none"
    /\ contains(call.pre, call.handler.identity)
    /\ Len(chain_of(call.pre, call.handler.identity)) = 2
    /\ chain_of(call.pre, call.handler.identity)[1]
          # chain_of(call.pre, call.handler.identity)[2]
    /\ chain_of(call.pre, call.handler.identity)[1] # call.handler


(***************************************************************************)
(* Python values.  A value is a tuple whose first element is the name of   *)
(* its runtime type.                                                       *)
(***************************************************************************)
None == <<"NoneType">>

Integer(n) == <<"int", n>>

Str(s) == <<"str", s>>

\* bytes: content is <<"raw", text>> (ASCII text) or <<"msgpack", tree>>
\* (the output of the packer)
Bytes(content) == <<"bytes", content>>

List(elems) == <<"list", elems>>

\* a dict is its sequence of <<key, value>> pairs in insertion order
Dict(pairs) == <<"dict", pairs>>

\* msgpack.ExtType(code, data)
ExtType(code, data) == <<"ExtType", code, data>>

\* a raised exception, as the outcome of an operator
Raise(exc, what) == <<"raise", exc, what>>

IsRaise(x) == x[1] = "raise"

type(value) == value[1]

\* the classes each runtime type is an instance of (datetime.datetime is a
\* subclass of datetime.date)
Mro(t) == IF t = "datetime" THEN {"datetime", "date"} ELSE {t}

isinstance(value, cls) == cls \in Mro(type(value))

\* the first raised exception among the elements of a sequence, if any
FirstRaise(seq) ==
    seq[CHOOSE i \in 1..Len(seq) :
            IsRaise(seq[i]) /\ \A j \in 1..(i - 1) : ~IsRaise(seq[j])]

AnyRaise(seq) == \E i \in 1..Len(seq) : IsRaise(seq[i])

\* key in dct
DictHas(dct, key) == \E i \in 1..Len(dct[2]) : dct[2][i][1] = key

\* dct[key]; the last pair written under a key is the one a dict keeps
DictGet(dct, key) ==
    IF DictHas(dct, key)
    THEN dct[2][CHOOSE i \in 1..Len(dct[2]) :
                   /\ dct[2][i][1] = key
                   /\ \A j \in (i + 1)..Len(dct[2]) : dct[2][j][1] # key][2]
    ELSE Raise("KeyError", key)

\* list(a_set): the elements in some order
RECURSIVE SetToSeq(_)
SetToSeq(S) ==
    IF S = {} THEN <<>>
    ELSE LET x == CHOOSE x \in S : TRUE IN <<x>> \o SetToSeq(S \ {x})

SeqToSet(seq) == { seq[i] : i \in 1..Len(seq) }

(***************************************************************************)
(* Time zones (datetime.timezone, zoneinfo.ZoneInfo)                       *)
(***************************************************************************)
\* tzinfo objects: none (naive), ZoneInfo(key), datetime.timezone.utc and a
\* fixed-offset datetime.timezone
NoTz == <<"NoneType">>

ZoneInfoOf(key) == <<"ZoneInfo", key>>

TimezoneOf(name) == <<"timezone", name>>

\* keys of the time zone database
ZoneKeys == {"UTC", "Europe/Lisbon"}

\* zoneinfo.ZoneInfo(key)
ZoneInfo(key) ==
    IF key \in ZoneKeys THEN ZoneInfoOf(key)
    ELSE Raise("ZoneInfoNotFoundError", key)

\* str(tzinfo): the key of a ZoneInfo, the name of a datetime.timezone
str_tzinfo(tz) == tz[2]

\* the tzinfo objects a caller's timestamps carry
TzInfos ==
    {NoTz, ZoneInfoOf("UTC"), ZoneInfoOf("Europe/Lisbon"),
     TimezoneOf("UTC"), TimezoneOf("UTC+01:00")}

(***************************************************************************)
(* The built-in handlers, the msgpack packer and the codec hooks           *)
(* (msgpackutils.py).  A handler's registry field names the registry it    *)
(* was constructed with; registry_table resolves the name.                 *)
(***************************************************************************)
UUIDHandler == Handler("UUIDHandler", 0, "UUID", "none")

DateTimeHandler(registry) == Handler("DateTimeHandler", 1, "datetime", registry)

CountHandler == Handler("CountHandler", 2, "count", "none")

NetAddrIPHandler == Handler("NetAddrIPHandler", 3, "IPAddress", "none")

SetHandler(registry) == Handler("SetHandler", 4, "set", registry)

FrozenSetHandler(registry) == Handler("FrozenSetHandler", 5, "frozenset", registry)

\* holds _handler = DateTimeHandler(registry)
XMLRPCDateTimeHandler(registry) ==
    Handler("XMLRPCDateTimeHandler", 6, "DateTime", registry)

DateHandler(registry) == Handler("DateHandler", 7, "date", registry)

\* a handler supplied by an application, in the non-reserved range
AppHandler == Handler("AppHandler", 50, "AppType", "none")

\* registry.register(h, reserved=True) for each h of a sequence, in order
RECURSIVE register_each(_, _, _)
register_each(reg, hs, reserved) ==
    IF hs = <<>> THEN reg
    ELSE register_each(register(reg, Head(hs), reserved, FALSE).reg,
                       Tail(hs), reserved)

\* the registry handed out without the closing registry.frozen = True
_create_default_registry_unfrozen(name, netaddr) ==
    register_each(HandlerRegistry,
        <<DateTimeHandler(name), DateHandler(name), UUIDHandler,
          CountHandler, SetHandler(name), FrozenSetHandler(name)>>
        \o (IF netaddr THEN <<NetAddrIPHandler>> ELSE <<>>)
        \o <<XMLRPCDateTimeHandler(name)>>,
        TRUE)

_create_default_registry(name, netaddr) ==
    LET registry ==
          register_each(HandlerRegistry,
              <<DateTimeHandler(name), DateHandler(name), UUIDHandler,
                CountHandler, SetHandler(name), FrozenSetHandler(name)>>
              \o (IF netaddr THEN <<NetAddrIPHandler>> ELSE <<>>)
              \o <<XMLRPCDateTimeHandler(name)>>,
              TRUE)
    IN [registry EXCEPT !.frozen = TRUE]

default_registry == _create_default_registry("default", TRUE)

\* the registries encode and decode are called with
RegistryNames == {"default", "no_netaddr", "empty", "app"}

\* the registry object a name denotes: one of the registries above, or a
\* registry of the state
registry_table(name) ==
    CASE name \in RegIds -> regs[name]
      [] name = "default" -> default_registry
      [] name = "no_netaddr" -> _create_default_registry("no_netaddr", FALSE)
      [] name = "empty" -> HandlerRegistry
      [] name = "app" -> register_each(HandlerRegistry, <<AppHandler>>, FALSE)

\* an iteration that yields only the front of every chain
RECURSIVE iter_handlers_fronts(_)
iter_handlers_fronts(entries) ==
    IF entries = <<>> THEN <<>>
    ELSE <<Head(entries).chain[1]>> \o iter_handlers_fronts(Tail(entries))

\* HandlerRegistry.__iter__: every handler, dict order then chain order
RECURSIVE iter_handlers(_)
iter_handlers(entries) ==
    IF entries = <<>> THEN <<>>
    ELSE Head(entries).chain \o iter_handlers(Tail(entries))

\* HandlerRegistry.match
match(reg, obj) ==
    LET hs == iter_handlers(reg.handlers)
    IN IF \E i \in 1..Len(hs) : isinstance(obj, hs[i].handles)
       THEN hs[CHOOSE i \in 1..Len(hs) :
                  /\ isinstance(obj, hs[i].handles)
                  /\ \A j \in 1..(i - 1) : ~isinstance(obj, hs[j].handles)]
       ELSE NoHandler

\* the types msgpack packs without calling default
NativeTypes == {"NoneType", "int", "str", "bytes", "list", "dict", "ExtType"}

\* str(itertools.count(...)) between the parentheses, split on ","
count_pieces(obj) == IF obj[3] = 1 THEN <<obj[2]>> ELSE <<obj[2], obj[3]>>

\* value.decode("ascii")
decode_ascii(value) ==
    IF type(value) # "bytes" THEN Raise("AttributeError", "decode")
    ELSE IF value[2][1] = "raw" THEN Str(value[2][2])
    ELSE Raise("UnicodeDecodeError", "ascii")

\* the record with its keys left as they arrived
decode_keys_kept(dct) == dct

\* {k.decode("ascii"): v for k, v in dct.items()}
decode_keys(dct) ==
    LET ks == [i \in 1..Len(dct[2]) |-> decode_ascii(dct[2][i][1])]
    IN IF AnyRaise(ks) THEN FirstRaise(ks)
       ELSE Dict([i \in 1..Len(dct[2]) |-> <<ks[i], dct[2][i][2]>>])

\* dct with dct[key] = value
DictSet(dct, key, value) ==
    IF DictHas(dct, key)
    THEN Dict([i \in 1..Len(dct[2]) |->
                 IF dct[2][i][1] = key THEN <<key, value>> ELSE dct[2][i]])
    ELSE Dict(Append(dct[2], <<key, value>>))

\* the integer fields named by keys, read from dct, as <<"fields", record>>;
\* the first failing lookup is the outcome when one fails
fields_of(dct, keys) ==
    LET vs == [i \in 1..Len(keys) |->
                 LET v == DictGet(dct, Str(keys[i]))
                 IN IF IsRaise(v) THEN v
                    ELSE IF type(v) # "int" THEN Raise("TypeError", keys[i])
                    ELSE v]
    IN IF AnyRaise(vs) THEN FirstRaise(vs)
       ELSE <<"fields", [k \in SeqToSet(keys) |->
                           vs[CHOOSE i \in 1..Len(keys) : keys[i] = k][2]]>>

DateTimeKeys ==
    <<"day", "month", "year", "hour", "minute", "second", "microsecond">>

DateKeys == <<"year", "month", "day">>

\* a container of the packed or unpacked elements es, or the first exception
\* raised while producing them
UpToFirstRaise(tag, es) ==
    IF AnyRaise(es) THEN FirstRaise(es) ELSE <<tag, es>>

\* a mapping of the keys ks to the values vs, or the first exception raised
PairsUpToFirstRaise(tag, ks, vs) ==
    IF AnyRaise(ks) THEN FirstRaise(ks)
    ELSE IF AnyRaise(vs) THEN FirstRaise(vs)
    ELSE <<tag, [i \in 1..Len(ks) |-> <<ks[i], vs[i]>>]>>

\* the bytes of a packed tree
stream_of(tree) ==
    IF IsRaise(tree) THEN tree ELSE Bytes(<<"msgpack", tree>>)

RECURSIVE packb(_, _), dumps(_, _), serialize(_, _), _serializer(_, _)
RECURSIVE pack_ext(_, _), serialize_with(_, _)

\* the packer packs what its default hook returned
pack_ext(ext, registry) == IF IsRaise(ext) THEN ext ELSE packb(ext, registry)

\* msgpack.packb(obj, default=...): the packed tree, or the exception raised.
\* registry names the registry of the default hook, "none" when there is no
\* hook.
packb(obj, registry) ==
    CASE type(obj) = "NoneType" -> <<"nil">>
      [] type(obj) \in {"int", "str"} -> obj
      [] type(obj) = "bytes" -> <<"bin", obj[2]>>
      [] type(obj) = "list" ->
           UpToFirstRaise("array",
               [i \in 1..Len(obj[2]) |-> packb(obj[2][i], registry)])
      [] type(obj) = "dict" ->
           PairsUpToFirstRaise("map",
               [i \in 1..Len(obj[2]) |-> packb(obj[2][i][1], registry)],
               [i \in 1..Len(obj[2]) |-> packb(obj[2][i][2], registry)])
      [] type(obj) = "ExtType" -> <<"ext", obj[2], obj[3]>>
      [] OTHER ->
           IF registry = "none" THEN Raise("TypeError", type(obj))
           ELSE pack_ext(_serializer(registry, obj), registry)

\* msgpackutils.dumps
dumps(obj, registry) ==
    stream_of(packb(obj, registry))

\* the timestamp record DateTimeHandler.serialize packs
datetime_dct(dt) ==
    Dict(<<<<Str("day"), Integer(dt.day)>>,
           <<Str("month"), Integer(dt.month)>>,
           <<Str("year"), Integer(dt.year)>>,
           <<Str("hour"), Integer(dt.hour)>>,
           <<Str("minute"), Integer(dt.minute)>>,
           <<Str("second"), Integer(dt.second)>>,
           <<Str("microsecond"), Integer(dt.microsecond)>>>>
         \o (IF dt.tzinfo # NoTz
             THEN <<<<Str("tz"), Str(str_tzinfo(dt.tzinfo))>>>>
             ELSE <<>>))

\* datetime.datetime(*tuple(obj.timetuple())[:6])
datetime_of_timetuple(t) ==
    <<"datetime",
      [year |-> t.year, month |-> t.month, day |-> t.day, hour |-> t.hour,
       minute |-> t.minute, second |-> t.second, microsecond |-> 0,
       tzinfo |-> NoTz]>>

\* handler.serialize(obj), by the class of the handler
serialize(h, obj) ==
    CASE h.cls = "UUIDHandler" -> Bytes(<<"raw", obj[2]>>)
      [] h.cls = "DateTimeHandler" -> dumps(datetime_dct(obj[2]), h.registry)
      [] h.cls = "CountHandler" ->
           LET pieces == count_pieces(obj)
               start == pieces[1]
               step == IF Len(pieces) = 1 THEN 1 ELSE pieces[2]
           IN Bytes(<<"msgpack",
                      packb(List(<<Integer(start), Integer(step)>>), "none")>>)
      [] h.cls = "NetAddrIPHandler" ->
           Bytes(<<"msgpack", packb(Integer(obj[2]), "none")>>)
      [] h.cls \in {"SetHandler", "FrozenSetHandler"} ->
           dumps(List(SetToSeq(obj[2])), h.registry)
      [] h.cls = "XMLRPCDateTimeHandler" ->
           serialize(DateTimeHandler(h.registry),
                     datetime_of_timetuple(obj[2]))
      [] h.cls = "DateHandler" ->
           dumps(Dict(<<<<Str("year"), Integer(obj[2].year)>>,
                        <<Str("month"), Integer(obj[2].month)>>,
                        <<Str("day"), Integer(obj[2].day)>>>>),
                 h.registry)
      [] h.cls = "AppHandler" -> Bytes(<<"raw", obj[2]>>)

\* the extension record a packer's default hook returns for obj
ext_record_untagged(handler, data) == ExtType(0, data)

ext_record(handler, data) == ExtType(handler.identity, data)

\* the payload of a handler under its identity, unless serialize raised
tagged(handler, data) ==
    IF IsRaise(data) THEN data ELSE ext_record(handler, data)

\* _serializer once the registry has been searched for a handler
serialize_with(handler, obj) ==
    IF handler = NoHandler THEN Raise("ValueError", type(obj))
    ELSE tagged(handler, serialize(handler, obj))

_serializer(registry, obj) ==
    serialize_with(match(registry_table(registry), obj), obj)

RECURSIVE unpackb(_, _), loads(_, _), deserialize(_, _), _unserializer(_, _, _)
RECURSIVE deserialize_with(_, _, _)

\* msgpack.unpackb(s, ext_hook=..., raw=False) on a packed tree
unpackb(tree, registry) ==
    CASE tree[1] = "nil" -> None
      [] tree[1] \in {"int", "str"} -> tree
      [] tree[1] = "bin" -> Bytes(tree[2])
      [] tree[1] = "array" ->
           UpToFirstRaise("list",
               [i \in 1..Len(tree[2]) |-> unpackb(tree[2][i], registry)])
      [] tree[1] = "map" ->
           PairsUpToFirstRaise("dict",
               [i \in 1..Len(tree[2]) |-> unpackb(tree[2][i][1], registry)],
               [i \in 1..Len(tree[2]) |-> unpackb(tree[2][i][2], registry)])
      [] tree[1] = "ext" ->
           IF registry = "none" THEN ExtType(tree[2], tree[3])
           ELSE _unserializer(registry, tree[2], tree[3])

\* msgpackutils.loads
loads(s, registry) ==
    IF s[2][1] = "msgpack" THEN unpackb(s[2][2], registry)
    ELSE Raise("UnpackException", "not a msgpack stream")

\* dct['tz'] = tz, unless decoding tz raised
set_tz(d, tz) == IF IsRaise(tz) THEN tz ELSE DictSet(d, Str("tz"), tz)

\* zoneinfo.ZoneInfo(tz)
zone_of(tz) ==
    IF type(tz) = "str" THEN ZoneInfo(tz[2])
    ELSE Raise("TypeError", "ZoneInfo key")

\* the tz entry of a re-keyed timestamp record, decoded as its key was
decode_tz(d) ==
    IF IsRaise(d) \/ ~DictHas(d, Str("tz")) THEN d
    ELSE set_tz(d, decode_ascii(DictGet(d, Str("tz"))))

\* DateTimeHandler.deserialize on the loaded record: binary keys (and the
\* tz value) are decoded when the record has the key b'day'
rekey_datetime(loaded) ==
    IF IsRaise(loaded) THEN loaded
    ELSE IF type(loaded) # "dict" THEN Raise("TypeError", type(loaded))
    ELSE IF DictHas(loaded, Bytes(<<"raw", "day">>))
    THEN decode_tz(decode_keys(loaded))
    ELSE loaded

\* datetime.datetime(**dct) with tzinfo=zone
datetime_in_zone(naive, zone) ==
    IF IsRaise(zone) THEN zone
    ELSE <<"datetime", [naive EXCEPT !.tzinfo = zone]>>

\* the timestamp built from the fields f of the record dct
datetime_of_fields(dct, f) ==
    IF IsRaise(f) THEN f
    ELSE LET naive ==
               [year |-> f[2].year, month |-> f[2].month,
                day |-> f[2].day, hour |-> f[2].hour,
                minute |-> f[2].minute, second |-> f[2].second,
                microsecond |-> f[2].microsecond, tzinfo |-> NoTz]
         IN IF /\ DictHas(dct, Str("tz"))
               /\ DictGet(dct, Str("tz")) # Str("")
            THEN datetime_in_zone(naive, zone_of(DictGet(dct, Str("tz"))))
            ELSE <<"datetime", naive>>

datetime_of_record(dct) ==
    IF IsRaise(dct) THEN dct
    ELSE datetime_of_fields(dct, fields_of(dct, DateTimeKeys))

\* DateTimeHandler.deserialize
deserialize_datetime(h, blob) ==
    datetime_of_record(rekey_datetime(loads(blob, h.registry)))

\* DateHandler.deserialize on the loaded record
rekey_date(loaded) ==
    IF IsRaise(loaded) THEN loaded
    ELSE IF type(loaded) # "dict" THEN Raise("TypeError", type(loaded))
    ELSE IF DictHas(loaded, Bytes(<<"raw", "day">>))
    THEN decode_keys(loaded)
    ELSE loaded

date_of_fields(f) ==
    IF IsRaise(f) THEN f
    ELSE <<"date", [year |-> f[2].year, month |-> f[2].month,
                    day |-> f[2].day]>>

date_of_record(dct) ==
    IF IsRaise(dct) THEN dct
    ELSE date_of_fields(fields_of(dct, DateKeys))

\* DateHandler.deserialize
deserialize_date(h, blob) ==
    date_of_record(rekey_date(loads(blob, h.registry)))

\* the types a set cannot hold (unhashable)
Unhashable == {"list", "dict", "set"}

\* itertools.count(value[0], value[1]) for the loaded value
count_of(value) ==
    IF IsRaise(value) THEN value
    ELSE IF type(value) # "list" \/ Len(value[2]) # 2
    THEN Raise("ValueError", "unpack")
    ELSE <<"count", value[2][1][2], value[2][2][2]>>

\* netaddr.IPAddress(value) for the loaded value
ip_of(value) == IF IsRaise(value) THEN value ELSE <<"IPAddress", value[2]>>

\* set(value) or frozenset(value) for the loaded value
set_of(handles, value) ==
    IF IsRaise(value) THEN value
    ELSE IF type(value) # "list"
            \/ \E i \in 1..Len(value[2]) : type(value[2][i]) \in Unhashable
    THEN Raise("TypeError", "unhashable")
    ELSE <<handles, SeqToSet(value[2])>>

\* xmlrpclib.DateTime(dt.timetuple())
xmlrpc_of(dt) ==
    IF IsRaise(dt) THEN dt
    ELSE <<"DateTime",
           [year |-> dt[2].year, month |-> dt[2].month, day |-> dt[2].day,
            hour |-> dt[2].hour, minute |-> dt[2].minute,
            second |-> dt[2].second]>>

\* handler.deserialize(data), by the class of the handler
deserialize(h, data) ==
    CASE h.cls = "UUIDHandler" ->
           IF data[2][1] = "raw" THEN <<"UUID", data[2][2]>>
           ELSE Raise("UnicodeDecodeError", "ascii")
      [] h.cls = "DateTimeHandler" -> deserialize_datetime(h, data)
      [] h.cls = "CountHandler" -> count_of(loads(data, "none"))
      [] h.cls = "NetAddrIPHandler" -> ip_of(loads(data, "none"))
      [] h.cls \in {"SetHandler", "FrozenSetHandler"} ->
           set_of(h.handles, loads(data, h.registry))
      [] h.cls = "XMLRPCDateTimeHandler" ->
           xmlrpc_of(deserialize_datetime(h, data))
      [] h.cls = "DateHandler" -> deserialize_date(h, data)
      [] h.cls = "AppHandler" -> <<"AppType", data[2][2]>>

\* what the decode hook returns for a code that has no handler
opaque_record_recoded(code, data) == ExtType(0, data)

opaque_record(code, data) == ExtType(code, data)

\* _unserializer once the registry has been asked for the code
deserialize_with(handler, code, data) ==
    IF handler = NoHandler THEN opaque_record(code, data)
    ELSE deserialize(handler, data)

_unserializer(registry, code, data) ==
    deserialize_with(get(registry_table(registry), code), code, data)

(***************************************************************************)
(* The codec as a state machine: callers round-trip a value through a      *)
(* handler of the default registry, encode values and decode streams.      *)
(***************************************************************************)
\* minutes east of UTC of a tzinfo in the winter months the model uses
utcoffset(tz) ==
    CASE tz[2] = "UTC" -> 0
      [] tz[2] = "Europe/Lisbon" -> 0
      [] tz[2] = "UTC+01:00" -> 60

\* a == b as Python evaluates it: two aware timestamps are equal when they
\* are the same instant, a naive and an aware one never are; values of
\* different types are different
PyEq(a, b) ==
    IF type(a) # type(b) THEN FALSE
    ELSE IF type(a) = "datetime"
    THEN /\ [a[2] EXCEPT !.tzinfo = NoTz] = [b[2] EXCEPT !.tzinfo = NoTz]
         /\ (a[2].tzinfo = NoTz) = (b[2].tzinfo = NoTz)
         /\ (a[2].tzinfo # NoTz => utcoffset(a[2].tzinfo) = utcoffset(b[2].tzinfo))
    ELSE a = b

DateTimes ==
    { <<"datetime",
        [year |-> 2020, month |-> mo, day |-> d, hour |-> h, minute |-> 0,
         second |-> sec, microsecond |-> us, tzinfo |-> tz]>> :
        mo \in {1, 12}, d \in {1, 31}, h \in {0, 23}, sec \in {0, 59},
        us \in {0, 999999}, tz \in TzInfos }

Dates ==
    { <<"date", [year |-> 2020, month |-> mo, day |-> d]>> :
        mo \in {1, 12}, d \in {1, 31} }

XMLRPCDateTimes ==
    { <<"DateTime",
        [year |-> 1971, month |-> 2, day |-> 3, hour |-> h, minute |-> 5,
         second |-> sec]>> : h \in {0, 4}, sec \in {0, 6} }

UUIDs == { <<"UUID", "00000000000000000000000000000001">>,
           <<"UUID", "c9bf9e57147649e2b2d4c1a0b2e0f7a1">> }

Counts == { <<"count", start, step>> : start \in {-3, 0, 1}, step \in {1, 2} }

IPAddresses == { <<"IPAddress", 1>>, <<"IPAddress", 16909060>> }

Sets == { <<"set", S>> : S \in SUBSET {Integer(1), Integer(2), Integer(3)} }

FrozenSets ==
    { <<"frozenset", S>> : S \in SUBSET {Integer(1), Integer(2), Integer(3)} }

\* the values the handlers of the default registry are given
HandlerValues ==
    DateTimes \cup Dates \cup XMLRPCDateTimes \cup UUIDs \cup Counts
    \cup IPAddresses \cup Sets \cup FrozenSets

\* values with no native msgpack form
AppValue == <<"AppType", "payload">>

Unhandled == <<"object", "anything">>

ExtValues ==
    { <<"datetime",
        [year |-> 2020, month |-> 1, day |-> 31, hour |-> 23, minute |-> 0,
         second |-> 59, microsecond |-> 7, tzinfo |-> tz]>> :
        tz \in {NoTz, ZoneInfoOf("UTC")} }
    \cup { <<"date", [year |-> 2020, month |-> 12, day |-> 31]>>,
           <<"UUID", "c9bf9e57147649e2b2d4c1a0b2e0f7a1">>,
           <<"count", 1, 2>>, <<"IPAddress", 16909060>>,
           <<"set", {Integer(1), Integer(2)}>>,
           <<"set", {<<"UUID", "c9bf9e57147649e2b2d4c1a0b2e0f7a1">>}>>,
           <<"frozenset", {Integer(3)}>>,
           <<"DateTime", [year |-> 1971, month |-> 2, day |-> 3, hour |-> 4,
                          minute |-> 5, second |-> 6]>>,
           AppValue, Unhandled }

\* the objects handed to dumps: natives, values that need a handler, and
\* both kinds nested in a list or under a dict key
DumpValues ==
    {None, Integer(1), Str("a")} \cup ExtValues
    \cup { List(<<Integer(1), v>>) : v \in ExtValues }
    \cup { Dict(<<<<Str("k"), v>>>>) : v \in ExtValues }

\* extension codes and payloads found in the streams handed to loads
ExtCodes == {0, 1, 4, 7, 8, 50, 127}

ExtPayloads ==
    { <<"bytes", <<"raw", "c9bf9e57147649e2b2d4c1a0b2e0f7a1">>>>,
      <<"bytes", <<"raw", "">>>>,
      <<"bytes", <<"msgpack", <<"array", <<Integer(1), Integer(2)>>>>>>>>,
      dumps(Dict(<<<<Str("year"), Integer(2020)>>,
                   <<Str("month"), Integer(1)>>,
                   <<Str("day"), Integer(2)>>>>), "none") }

ExtTrees == { <<"ext", code, data>> : code \in ExtCodes, data \in ExtPayloads }

LoadStreams ==
    { Bytes(<<"msgpack", t>>) : t \in ExtTrees }
    \cup { Bytes(<<"msgpack", <<"array", <<Integer(1), t>>>>>>) : t \in ExtTrees }

\* the calls made on the codec: a handler round trip, dumps, loads
CodecCalls ==
    { [op |-> "call", fn |-> "roundtrip", handler |-> h, value |-> v] :
        h \in SeqToSet(iter_handlers(default_registry.handlers)),
        v \in HandlerValues }
    \cup { [op |-> "call", fn |-> "dumps", registry |-> registry,
            obj |-> obj] :
            registry \in RegistryNames, obj \in DumpValues }
    \cup { [op |-> "call", fn |-> "loads", registry |-> registry, s |-> s] :
            registry \in RegistryNames, s \in LoadStreams }

CodecInit ==
    /\ regs = [r \in RegIds |-> NoRegistry]
    /\ call \in { c \in CodecCalls :
                    c.fn = "roundtrip"
                        => isinstance(c.value, c.handler.handles) }

\* h.deserialize(h.serialize(v)) for a handler h and a value it handles
RoundTrip ==
    /\ call.op = "call"
    /\ call.fn = "roundtrip"
    /\ LET blob == serialize(call.handler, call.value)
       IN call' = [op |-> "roundtrip", handler |-> call.handler,
                   value |-> call.value, blob |-> blob,
                   back |-> IF IsRaise(blob) THEN blob
                            ELSE deserialize(call.handler, blob)]
    /\ UNCHANGED regs

\* msgpackutils.dumps(obj, registry)
Dumps ==
    /\ call.op = "call"
    /\ call.fn = "dumps"
    /\ call' = [op |-> "dumps", registry |-> call.registry, obj |-> call.obj,
                result |-> dumps(call.obj, call.registry)]
    /\ UNCHANGED regs

\* msgpackutils.loads(s, registry)
Loads ==
    /\ call.op = "call"
    /\ call.fn = "loads"
    /\ call' = [op |-> "loads", registry |-> call.registry, s |-> call.s,
                result |-> loads(call.s, call.registry)]
    /\ UNCHANGED regs

CodecNext == RoundTrip \/ Dumps \/ Loads

SpecCodec == CodecInit /\ [][CodecNext]_vars

\* C4: for every handler h of the default registry and every value v that
\* h.handles matches by the subtype test, h.deserialize(h.serialize(v)) is
\* equal to v.
C4_RoundTripLaw ==
    call.op = "roundtrip"
        => /\ ~IsRaise(call.back)
           /\ PyEq(call.back, call.value)

\* the extension record of a stream handed to loads, and what the stream
\* decodes to when that record decodes to x
StreamExt(s) == IF s[2][2][1] = "ext" THEN s[2][2] ELSE s[2][2][2][2]

StreamAround(s, x) ==
    IF s[2][2][1] = "ext" THEN x ELSE List(<<Integer(1), x>>)

\* C5: decoding an extension record whose code has no handler in the decoding
\* registry does not fail: the record comes back as an opaque extension
\* record with the same code and the same payload bytes.
C5_UnknownExtPassthrough ==
    (/\ call.op = "loads"
     /\ ~contains(registry_table(call.registry), StreamExt(call.s)[2]))
        => call.result
             = StreamAround(call.s, ExtType(StreamExt(call.s)[2],
                                            StreamExt(call.s)[3]))

\* the default registry decoded a list holding a record of code 50
C5_Witness ==
    /\ call.op = "loads"
    /\ call.registry = "default"
    /\ call.s[2][2][1] = "array"
    /\ StreamExt(call.s)[2] = 50
    /\ type(call.result) = "list"
    /\ type(call.result[2][2]) = "ExtType"

\* the value of obj that msgpack cannot pack natively
NonNative(obj) ==
    CASE type(obj) = "list" -> obj[2][2]
      [] type(obj) = "dict" -> obj[2][1][2]
      [] OTHER -> obj

\* the packed tree of obj when its non-native value packs as tree x
TreeAround(obj, x) ==
    CASE type(obj) = "list" -> <<"array", <<Integer(1), x>>>>
      [] type(obj) = "dict" -> <<"map", <<<<Str("k"), x>>>>>>
      [] OTHER -> x

\* C6: encoding a value that has no native form and that no handler of the
\* registry matches fails with an error naming the value's runtime type;
\* when a handler matches, the value is written as an extension record
\* tagged with the handler's identity and carrying the handler's serialize
\* output.
C6_EncodeNoHandlerOrExt ==
    (call.op = "dumps" /\ type(NonNative(call.obj)) \notin NativeTypes)
        => LET x == NonNative(call.obj)
               h == match(registry_table(call.registry), x)
           IN IF h = NoHandler
              THEN call.result = Raise("ValueError", type(x))
              ELSE /\ ~IsRaise(serialize(h, x))
                   /\ call.result
                        = Bytes(<<"msgpack",
                                  TreeAround(call.obj,
                                      <<"ext", h.identity,
                                        serialize(h, x)>>)>>)

\* a timestamp nested in a list was encoded with a registry that has no
\* handler for it
C6_Witness ==
    /\ call.op = "dumps"
    /\ call.registry = "app"
    /\ type(call.obj) = "list"
    /\ type(NonNative(call.obj)) = "datetime"
    /\ call.result = Raise("ValueError", "datetime")

(***************************************************************************)
(* jsonutils.to_primitive.  Values that can take part in a cycle live in a *)
(* heap and are reached through <<"ref", id>>; a heap object is            *)
(*   <<"dict", pairs>>      a native dict                                  *)
(*   <<"list", elems>>      a native list                                  *)
(*   <<"items", pairs>>     an object with an items() accessor             *)
(*   <<"instance", pairs>>  an instance, pairs being its __dict__          *)
(*   <<"notiterable">>      an instance whose class sets __iter__ = None   *)
(***************************************************************************)
Bool(b) == <<"bool", b>>

Ref(id) == <<"ref", id>>

\* _simple_types
_simple_types == {"str", "int", "NoneType", "bool", "float"}

\* the results that are Python strings: literals, decoded bytes, str(v),
\* repr(v) and strftime output
StringTypes == {"str", "strof", "repr", "strftime"}

\* the object a value denotes
Deref(heap, value) == IF type(value) = "ref" THEN heap[value[2]] ELSE value

\* the timestamp handed back as it came
strftime_unconverted(value, fmt) == value

\* value.strftime(fmt): the fields the format prints (no time zone)
strftime(value, fmt) ==
    IF fmt = "%Y-%m-%d"
    THEN <<"strftime", fmt,
           [year |-> value[2].year, month |-> value[2].month,
            day |-> value[2].day]>>
    ELSE <<"strftime", fmt, [value[2] EXCEPT !.tzinfo = NoTz]>>

\* timeutils.PERFECT_TIME_FORMAT
PERFECT_TIME_FORMAT == "%Y-%m-%dT%H:%M:%S.%f"

_ISO8601_DATE_FORMAT == "%Y-%m-%d"

\* fallback(value): str when the caller gave none, else the caller's function
apply_fallback(fallback, value) ==
    IF fallback = "None" THEN <<"strof", value>>
    ELSE <<"fallback", fallback, value>>

\* the outcome of a call and the deepest nesting of calls it reached
Ret(out, nest) == [out |-> out, nest |-> nest]

\* the results of reducing the elements of a sequence in order, up to and
\* including the first that raises
UpToRaise(rs) ==
    IF \E i \in 1..Len(rs) : IsRaise(rs[i].out)
    THEN SubSeq(rs, 1, CHOOSE i \in 1..Len(rs) :
                          /\ IsRaise(rs[i].out)
                          /\ \A j \in 1..(i - 1) : ~IsRaise(rs[j].out))
    ELSE rs

MaxNest(rs, frames) ==
    IF rs = <<>> THEN frames
    ELSE CHOOSE n \in { rs[i].nest : i \in 1..Len(rs) } :
            \A i \in 1..Len(rs) : rs[i].nest <= n

\* the dict built from pairs written in order
RECURSIVE dict_of(_)
dict_of(pairs) ==
    IF pairs = <<>> THEN Dict(<<>>)
    ELSE DictSet(dict_of(SubSeq(pairs, 1, Len(pairs) - 1)),
                 pairs[Len(pairs)][1], pairs[Len(pairs)][2])

\* the depth test of to_primitive
too_deep_at_limit(level, max_depth) == level >= max_depth

too_deep(level, max_depth) == level > max_depth

\* the level an items() object or an instance __dict__ is reduced at
next_level_same(level) == level

next_level(level) == level + 1

\* what to_primitive does with a value no rule matched
no_match_unchanged(orig_fallback, value) == value

no_match(orig_fallback, value) ==
    IF orig_fallback = "None" THEN Raise("ValueError", value)
    ELSE <<"fallback", orig_fallback, value>>

\* the early answers with the itertools.count test left out
ShallowTypesCountIterated ==
    _simple_types
    \cup {"bytes", "DateTime", "datetime", "date", "UUID", "IPAddress",
          "IPNetwork", "IPv4Address", "IPv6Address", "Exception", "nasty"}

\* the values to_primitive answers before it looks at the depth: simple
\* types, bytes, timestamps, dates, identifiers, addresses, exceptions,
\* itertools.count and the "nasty" introspectable values
ShallowTypes ==
    _simple_types
    \cup {"bytes", "DateTime", "datetime", "date", "UUID", "IPAddress",
          "IPNetwork", "IPv4Address", "IPv6Address", "Exception", "count",
          "nasty"}

\* to_primitive on a value of ShallowTypes (no recursion)
shallow(value, obj, convert_datetime, orig_fallback) ==
    CASE type(obj) \in _simple_types -> obj
      [] type(obj) = "bytes" ->
           IF obj[2][1] = "raw" THEN Str(obj[2][2])
           ELSE Raise("UnicodeDecodeError", "utf-8")
      [] type(obj) = "DateTime" ->
           IF convert_datetime
           THEN strftime(datetime_of_timetuple(obj[2]), PERFECT_TIME_FORMAT)
           ELSE datetime_of_timetuple(obj[2])
      [] type(obj) = "datetime" ->
           IF convert_datetime THEN strftime(obj, PERFECT_TIME_FORMAT)
           ELSE obj
      [] type(obj) = "date" ->
           IF convert_datetime THEN strftime(obj, _ISO8601_DATE_FORMAT)
           ELSE obj
      [] type(obj) \in {"UUID", "IPAddress", "IPNetwork", "IPv4Address",
                        "IPv6Address"} -> <<"strof", obj>>
      [] type(obj) = "Exception" -> <<"repr", obj>>
      [] type(obj) \in {"count", "nasty"} ->
           apply_fallback(orig_fallback, value)

\* the outcome of the dict comprehension {recursive(k): recursive(v) ...}
\* given all == recursive(k1), recursive(v1), recursive(k2), ... : it stops
\* at the first call that raises or at the first pair whose reduced key is
\* unhashable (TypeError, caught by the except clause)
dict_outcome(all, value, orig_fallback, frames) ==
    LET n == Len(all) \div 2
        stops(i) == \/ IsRaise(all[i].out)
                    \/ (i % 2 = 0 /\ type(all[i - 1].out) \in Unhashable)
        last == IF \E i \in 1..(2 * n) : stops(i)
                THEN CHOOSE i \in 1..(2 * n) :
                        stops(i) /\ \A j \in 1..(i - 1) : ~stops(j)
                ELSE 2 * n
        rs == SubSeq(all, 1, last)
    IN CASE rs # <<>> /\ IsRaise(rs[last].out) ->
              Ret(rs[last].out, MaxNest(rs, frames))
         [] rs # <<>> /\ ~IsRaise(rs[last].out) /\ stops(last) ->
              Ret(apply_fallback(orig_fallback, value), MaxNest(rs, frames))
         [] OTHER ->
              Ret(dict_of([i \in 1..n |->
                             <<rs[2 * i - 1].out, rs[2 * i].out>>]),
                  MaxNest(rs, frames))

\* the outcome of list(map(recursive, value)) given the reduced elements
list_outcome(all, frames) ==
    LET rs == UpToRaise(all)
    IN IF rs # <<>> /\ IsRaise(rs[Len(rs)].out)
       THEN Ret(rs[Len(rs)].out, MaxNest(rs, frames))
       ELSE Ret(List([i \in 1..Len(rs) |-> rs[i].out]), MaxNest(rs, frames))

\* to_primitive; frames is the number of nested to_primitive calls in
\* progress, this one included
RECURSIVE to_primitive(_, _, _, _, _, _, _, _)
to_primitive(heap, value, convert_instances, convert_datetime, level, max_depth, orig_fallback, frames) ==
    CASE frames > RecursionLimit ->
           Ret(Raise("RecursionError", "maximum recursion depth exceeded"),
               frames)
      [] frames <= RecursionLimit
         /\ type(Deref(heap, value)) \in ShallowTypes ->
           Ret(shallow(value, Deref(heap, value), convert_datetime,
                       orig_fallback), frames)
      [] frames <= RecursionLimit
         /\ type(Deref(heap, value)) \notin ShallowTypes
         /\ too_deep(level, max_depth) -> Ret(None, frames)
      [] OTHER ->
           CASE type(Deref(heap, value)) = "dict" ->
                  dict_outcome(
                     [i \in 1..(2 * Len(Deref(heap, value)[2])) |->
                        to_primitive(heap,
                            Deref(heap, value)[2][(i + 1) \div 2][2 - (i % 2)],
                            convert_instances, convert_datetime, level,
                            max_depth, orig_fallback, frames + 1)],
                     value, orig_fallback, frames)
             [] type(Deref(heap, value)) = "items" ->
                  to_primitive(heap, dict_of(Deref(heap, value)[2]),
                               convert_instances, convert_datetime,
                               next_level(level), max_depth, orig_fallback,
                               frames + 1)
             [] type(Deref(heap, value)) = "list" ->
                  list_outcome(
                     [i \in 1..Len(Deref(heap, value)[2]) |->
                        to_primitive(heap, Deref(heap, value)[2][i],
                            convert_instances, convert_datetime, level,
                            max_depth, orig_fallback, frames + 1)],
                     frames)
             [] type(Deref(heap, value)) = "notiterable" ->
                  \* list(map(recursive, value)) raises TypeError
                  Ret(apply_fallback(orig_fallback, value), frames)
             [] convert_instances /\ type(Deref(heap, value)) = "instance" ->
                  to_primitive(heap, dict_of(Deref(heap, value)[2]),
                               convert_instances, convert_datetime,
                               next_level(level), max_depth, orig_fallback,
                               frames + 1)
             [] OTHER -> Ret(no_match(orig_fallback, value), frames)

(***************************************************************************)
(* The structures to_primitive is called on.  A scenario is a heap (object *)
(* ids are the positions 1..n) and the value handed to the call.           *)
(***************************************************************************)
Scenario(name, heap, value) == [name |-> name, heap |-> heap, value |-> value]

\* test_depth: LevelsGenerator(n); object i + 1 has i levels below it, its
\* items() yields (0, LevelsGenerator(i - 1)), the innermost yields nothing
LevelsGenerator(n) ==
    Scenario("levels",
             [i \in 1..(n + 1) |->
                IF i = 1 THEN <<"items", <<>>>>
                ELSE <<"items", <<<<Integer(0), Ref(i - 1)>>>>>>],
             Ref(n + 1))

\* test_items_with_cycle: x.data['other'] = x2; x2.data['other'] = x
ItemsCycle ==
    Scenario("items_cycle",
             << <<"items", <<<<Str("a"), Integer(1)>>,
                             <<Str("other"), Ref(2)>>>>>>,
                <<"items", <<<<Str("a"), Integer(1)>>,
                             <<Str("other"), Ref(1)>>>>>> >>,
             Ref(1))

\* d = {}; d['self'] = d
DictCycle ==
    Scenario("dict_cycle", << <<"dict", <<<<Str("self"), Ref(1)>>>>>> >>, Ref(1))

\* l = [1]; l.append(l)
ListCycle ==
    Scenario("list_cycle", << <<"list", <<Integer(1), Ref(1)>>>> >>, Ref(1))

\* o.me = o
InstanceCycle ==
    Scenario("instance_cycle",
             << <<"instance", <<<<Str("me"), Ref(1)>>>>>> >>, Ref(1))

\* an items() object that yields itself
ItemsSelfCycle ==
    Scenario("items_self_cycle",
             << <<"items", <<<<Str("me"), Ref(1)>>>>>> >>, Ref(1))

\* a dict holding a list that holds the dict
DictListCycle ==
    Scenario("dict_list_cycle",
             << <<"dict", <<<<Str("l"), Ref(2)>>>>>>,
                <<"list", <<Ref(1)>>>> >>,
             Ref(1))

CyclicScenarios ==
    {ItemsCycle, DictCycle, ListCycle, InstanceCycle, ItemsSelfCycle,
     DictListCycle}

\* test_fallback, test_fallback_list: an object no rule matches (ReprObject,
\* an instance with an empty __dict__), alone and at nested positions of
\* native lists and dicts
NoMatchHeap == << <<"instance", <<>>>> >>

NoMatchValues ==
    { Ref(1),
      List(<<Ref(1)>>),
      List(<<Integer(1), List(<<Ref(1)>>)>>),
      Dict(<<<<Str("k"), Ref(1)>>>>),
      Dict(<<<<Ref(1), Integer(1)>>>>),
      Dict(<<<<Str("k"), List(<<Integer(1), Ref(1)>>)>>>>) }

NoMatchScenarios ==
    { Scenario("no_match", NoMatchHeap, v) : v \in NoMatchValues }

\* the other classes of value
PlainValues ==
    { None, Integer(1), Str("a"), Bool(TRUE),
      Bytes(<<"raw", "a">>), Bytes(<<"invalid">>),
      <<"count", 1, 1>>, <<"count", 0, 2>>, <<"nasty", "class int">>,
      <<"Exception", "ValueError('an exception')">>,
      <<"UUID", "c9bf9e57147649e2b2d4c1a0b2e0f7a1">>,
      <<"IPAddress", 16909060>>,
      <<"date", [year |-> 1920, month |-> 2, day |-> 3]>>,
      <<"datetime", [year |-> 1920, month |-> 2, day |-> 3, hour |-> 4,
                     minute |-> 5, second |-> 6, microsecond |-> 7,
                     tzinfo |-> NoTz]>>,
      <<"DateTime", [year |-> 1971, month |-> 2, day |-> 3, hour |-> 4,
                     minute |-> 5, second |-> 6]>>,
      List(<<Integer(1), <<"count", 1, 1>>>>),
      Dict(<<<<Integer(1), Str("a")>>,
             <<List(<<Integer(1), Integer(2)>>), Str("b")>>>>),
      Dict(<<<<Integer(1), Bytes(<<"raw", "a">>)>>,
             <<<<"UUID", "c9bf9e57147649e2b2d4c1a0b2e0f7a1">>, None>>>>) }

PlainScenarios ==
    { Scenario("plain", << <<"notiterable">> >>, v) :
        v \in PlainValues \cup {Ref(1)} }

Scenarios ==
    { LevelsGenerator(n) : n \in 0..MaxLevels }
    \cup CyclicScenarios \cup NoMatchScenarios \cup PlainScenarios

\* the fallback functions callers pass ("None": no fallback)
Fallbacks == {"None", "repr"}

ReduceInit ==
    /\ regs = [r \in RegIds |-> NoRegistry]
    /\ call \in
         { [op |-> "call", fn |-> "to_primitive", scenario |-> sc,
            convert_instances |-> ci, convert_datetime |-> cd,
            level |-> lvl, max_depth |-> md, fallback |-> fb] :
            sc \in Scenarios, ci \in BOOLEAN, cd \in BOOLEAN,
            lvl \in {0, 1}, md \in 0..MaxMaxDepth, fb \in Fallbacks }

\* jsonutils.to_primitive(value, ...) as the caller sees it
ToPrimitive ==
    /\ call.op = "call"
    /\ call.fn = "to_primitive"
    /\ call' = [op |-> "to_primitive", scenario |-> call.scenario,
                convert_instances |-> call.convert_instances,
                convert_datetime |-> call.convert_datetime,
                level |-> call.level, max_depth |-> call.max_depth,
                fallback |-> call.fallback,
                result |-> to_primitive(call.scenario.heap,
                              call.scenario.value, call.convert_instances,
                              call.convert_datetime, call.level,
                              call.max_depth, call.fallback, 1)]
    /\ UNCHANGED regs

ReduceNext == ToPrimitive

SpecReduce == ReduceInit /\ [][ReduceNext]_vars

\* the result of the last to_primitive call: what it returned or raised, and
\* the deepest nesting of calls it reached
result == call.result

\* n nested {0: ...} around x
RECURSIVE Nested(_, _)
Nested(n, x) ==
    IF n = 0 THEN x ELSE Dict(<<<<Integer(0), Nested(n - 1, x)>>>>)

\* a to_primitive call on LevelsGenerator(4) at level 0 has returned
Levels4Reduced ==
    /\ call.op = "to_primitive"
    /\ call.scenario = LevelsGenerator(4)
    /\ call.level = 0

\* C7 as stated: LevelsGenerator(4) reduced with max_depth=2 is cut to null
\* at depth 2, and with max_depth=4 survives in full (nothing is replaced by
\* null).
C7_DepthBoundaryAsStated ==
    Levels4Reduced
        => /\ (call.max_depth = 2 => result.out = Nested(2, None))
           /\ (call.max_depth = 4 => result.out = Nested(4, Dict(<<>>)))

\* C7 (amended): LevelsGenerator(4) reduced with max_depth=m <= 4 is m nested
\* mappings around null (max_depth=2: cut at depth 2; max_depth=4: the four
\* mapping levels survive, the innermost empty object is null); the whole
\* structure survives only for max_depth >= 5.
C7_DepthBoundary ==
    Levels4Reduced
        => result.out = (IF call.max_depth > 4 THEN Nested(4, Dict(<<>>))
                         ELSE Nested(call.max_depth, None))

\* LevelsGenerator(4) was reduced with max_depth=4
C7_Witness ==
    /\ Levels4Reduced
    /\ call.max_depth = 4
    /\ result.out = Nested(4, None)

\* C8: to_primitive terminates on every cyclic structure, whatever container
\* forms the cycle: the depth ceiling cuts the recursion, which therefore
\* never runs into the interpreter's recursion limit.
C8_TerminatesOnEveryCycle ==
    (call.op = "to_primitive" /\ call.scenario \in CyclicScenarios)
        => ~(IsRaise(result.out) /\ result.out[2] = "RecursionError")

\* the value under key 'other', n times over
RECURSIVE Others(_, _)
Others(x, n) ==
    IF n = 0 THEN x
    ELSE IF type(x) = "dict" /\ DictHas(x, Str("other"))
    THEN Others(DictGet(x, Str("other")), n - 1)
    ELSE Raise("KeyError", "other")

\* C9: reducing x of test_items_with_cycle (x.data['other'] = x2,
\* x2.data['other'] = x) returns a result: following 'other' max_depth times
\* ends at the null that cuts the cycle, and the calls never nest deeper
\* than 2 * (max_depth + 1).
C9_ItemsCycleCut ==
    (/\ call.op = "to_primitive"
     /\ call.scenario = ItemsCycle
     /\ call.level = 0)
        => /\ ~IsRaise(result.out)
           /\ Others(result.out, call.max_depth) = None
           /\ \A n \in 0..(call.max_depth - 1) :
                 type(Others(result.out, n)) = "dict"
           /\ result.nest <= 2 * (call.max_depth + 1)

\* the cycle of test_items_with_cycle was reduced with the default
\* max_depth=3
C9_Witness ==
    /\ call.op = "to_primitive"
    /\ call.scenario = ItemsCycle
    /\ call.level = 0
    /\ call.max_depth = 3
    /\ call.fallback = "None"
    /\ ~call.convert_instances
    /\ Others(result.out, 3) = None
    /\ result.nest = 8

\* value with every unmatched object replaced by what the fallback returns
\* for it, through native lists and dicts
RECURSIVE WithFallback(_, _)
WithFallback(value, fallback) ==
    CASE type(value) = "ref" -> <<"fallback", fallback, value>>
      [] type(value) = "list" ->
           List([i \in 1..Len(value[2]) |->
                   WithFallback(value[2][i], fallback)])
      [] type(value) = "dict" ->
           Dict([i \in 1..Len(value[2]) |->
                   <<WithFallback(value[2][i][1], fallback),
                     WithFallback(value[2][i][2], fallback)>>])
      [] OTHER -> value

CountReduced ==
    /\ call.op = "to_primitive"
    /\ type(call.scenario.value) = "count"

\* C11: to_primitive of an itertools.count never raises and never iterates
\* it: at every level and max_depth, level > max_depth included, it returns
\* fallback(value) when a fallback is given and str(value) when none is, in
\* one call with no recursion.
C11_CountToFallback ==
    CountReduced
        => /\ ~IsRaise(result.out)
           /\ result.nest = 1
           /\ (call.fallback = "None"
                 => result.out = <<"strof", call.scenario.value>>)
           /\ (call.fallback # "None"
                 => result.out
                      = <<"fallback", call.fallback, call.scenario.value>>)

\* a counter reduced below the depth ceiling with a fallback given
C11_Witness ==
    /\ CountReduced
    /\ call.level > call.max_depth
    /\ call.fallback = "repr"
    /\ result.out = <<"fallback", "repr", <<"count", 0, 2>>>>

\* the types of the scalar results: null, booleans, numbers and strings
ScalarTypes == {"NoneType", "bool", "int", "float"} \cup StringTypes

\* x is null, a boolean, a number, a string, a sequence of such values or a
\* mapping of keys of the types KeyTypes to such values
RECURSIVE Primitive(_, _)
Primitive(x, KeyTypes) ==
    CASE type(x) = "list" ->
           \A i \in 1..Len(x[2]) : Primitive(x[2][i], KeyTypes)
      [] type(x) = "dict" ->
           \A i \in 1..Len(x[2]) :
              /\ type(x[2][i][1]) \in KeyTypes
              /\ Primitive(x[2][i][2], KeyTypes)
      [] OTHER -> type(x) \in ScalarTypes

\* a to_primitive call with convert_datetime=True and no fallback returned
DefaultReduced ==
    /\ call.op = "to_primitive"
    /\ call.convert_datetime
    /\ call.fallback = "None"
    /\ ~IsRaise(result.out)

\* C12 as stated: every value to_primitive returns with convert_datetime=True
\* and no fallback is null, a boolean, a number, a string, a sequence of
\* primitives or a mapping of primitives whose keys are all strings.
C12_StringKeyedAsStated == DefaultReduced => Primitive(result.out, StringTypes)

\* C12 (amended): every value to_primitive returns with
\* convert_datetime=True and no fallback is null, a boolean, a number, a
\* string, a sequence of primitives or a mapping of primitives whose keys
\* are reduced scalars (null, boolean, number or string): keys are reduced
\* by the same rules as values but are not turned into strings.
C12_ScalarKeyed == DefaultReduced => Primitive(result.out, ScalarTypes)

\* a mapping with an integer key and an identifier key has been reduced: the
\* integer key is kept, the identifier key is its string form
C12_Witness ==
    /\ DefaultReduced
    /\ call.level <= call.max_depth
    /\ type(call.scenario.value) = "dict"
    /\ result.out
         = Dict(<<<<Integer(1), Str("a")>>,
                  <<<<"strof", <<"UUID", "c9bf9e57147649e2b2d4c1a0b2e0f7a1">>>>,
                    None>>>>)

(***************************************************************************)
(* The module after import: default_registry = _create_default_registry(), *)
(* then the callers' operations on it and on a copy of it.  "r" is the     *)
(* default registry, "c" its copy.                                         *)
(***************************************************************************)
\* handlers callers try to register on registry x
ExtraHandlersFor(x) == {AppHandler, UUIDHandler, DateTimeHandler(x)}

\* identities looked up
DefaultIdents == {1, 3, 50}

\* values matched and encoded
DefaultValues ==
    { <<"datetime",
        [year |-> 2020, month |-> 1, day |-> 31, hour |-> 23, minute |-> 0,
         second |-> 59, microsecond |-> 7, tzinfo |-> NoTz]>>,
      <<"IPAddress", 16909060>>,
      <<"set", {<<"UUID", "c9bf9e57147649e2b2d4c1a0b2e0f7a1">>}>> }

\* streams decoded
DefaultStreams ==
    { Bytes(<<"msgpack",
              <<"ext", 0,
                Bytes(<<"raw", "c9bf9e57147649e2b2d4c1a0b2e0f7a1">>)>>>>),
      Bytes(<<"msgpack", <<"ext", 3, Bytes(<<"msgpack", Integer(1)>>)>>>>) }

\* the interpreter is about to run the module body; netaddr tells whether
\* the optional netaddr library can be imported
DefaultInit ==
    /\ regs = [r \in RegIds |-> NoRegistry]
    /\ call \in { [op |-> "import", netaddr |-> n] : n \in BOOLEAN }

\* default_registry = _create_default_registry()
CreateDefaultRegistry ==
    /\ call.op = "import"
    /\ regs' = [regs EXCEPT
                  !["r"] = _create_default_registry("r", call.netaddr)]
    /\ call' = [op |-> "_create_default_registry", r |-> "r",
                netaddr |-> call.netaddr]

\* registry.match(obj)
Match(r, obj) ==
    /\ regs[r].exists
    /\ call' = [op |-> "match", r |-> r, obj |-> obj,
                result |-> match(regs[r], obj)]
    /\ UNCHANGED regs

\* identity in registry
Contains(r, identity) ==
    /\ regs[r].exists
    /\ call' = [op |-> "contains", r |-> r, identity |-> identity,
                result |-> contains(regs[r], identity)]
    /\ UNCHANGED regs

\* len(registry)
LenOf(r) ==
    /\ regs[r].exists
    /\ call' = [op |-> "len", r |-> r, result |-> len(regs[r])]
    /\ UNCHANGED regs

\* msgpackutils.dumps(obj, registry=r)
Encode(r, obj) ==
    /\ regs[r].exists
    /\ call' = [op |-> "dumps", r |-> r, registry |-> r, obj |-> obj,
                result |-> dumps(obj, r)]
    /\ UNCHANGED regs

\* msgpackutils.loads(s, registry=r)
Decode(r, s) ==
    /\ regs[r].exists
    /\ call' = [op |-> "loads", r |-> r, registry |-> r, s |-> s,
                result |-> loads(s, r)]
    /\ UNCHANGED regs

DefaultNext ==
    \/ CreateDefaultRegistry
    \/ \E r \in RegIds, reserved \in BOOLEAN, override \in BOOLEAN :
         \E handler \in ExtraHandlersFor(r) :
            Register(r, handler, reserved, override, 8 + MaxExtraHandlers)
    \/ Freeze("c")
    \/ \E unfreeze \in BOOLEAN : Copy(unfreeze)
    \/ \E r \in RegIds, identity \in DefaultIdents : Get(r, identity)
    \/ \E r \in RegIds, obj \in DefaultValues : Match(r, obj)
    \/ \E r \in RegIds, identity \in DefaultIdents : Contains(r, identity)
    \/ \E r \in RegIds : LenOf(r)
    \/ \E r \in RegIds, obj \in DefaultValues : Encode(r, obj)
    \/ \E r \in RegIds, s \in DefaultStreams : Decode(r, s)

SpecDefault == DefaultInit /\ [][DefaultNext]_vars

\* the identities a registry has a chain for
identities(reg) == { reg.handlers[i].ident : i \in 1..Len(reg.handlers) }

\* a frozen registry of one handler per identity of ids
FrozenOnePer(reg, ids) ==
    /\ reg.frozen
    /\ identities(reg) = ids
    /\ len(reg) = Cardinality(ids)
    /\ \A i \in 1..Len(reg.handlers) : Len(reg.handlers[i].chain) = 1

\* C13 as stated: once module initialisation has finished the default
\* registry is frozen and holds exactly eight handlers, one per identity
\* 0..7, with or without the netaddr library.
C13_EightHandlersAsStated ==
    regs["r"].exists => FrozenOnePer(regs["r"], 0..7)

\* C13 (amended): once module initialisation has finished the default
\* registry is frozen and holds one handler per identity (each chain of
\* length one): the eight identities 0..7 when the netaddr library is
\* present, and the seven identities 0, 1, 2, 4, 5, 6, 7 when it is absent.
C13_DefaultRegistry ==
    regs["r"].exists
        => /\ \/ FrozenOnePer(regs["r"], 0..7)
              \/ FrozenOnePer(regs["r"], (0..7) \ {3})
           /\ call.op = "_create_default_registry"
                => (contains(regs["r"], 3) <=> call.netaddr)

\* module initialisation has finished without the netaddr library
C13_Witness ==
    /\ call.op = "_create_default_registry"
    /\ ~call.netaddr
    /\ len(regs["r"]) = 7
    /\ get(regs["r"], 3) = NoHandler
    /\ get(regs["r"], 6) = XMLRPCDateTimeHandler("r")

\* C14: freezing is permanent.  No step of register (any flags), copy (with
\* or without unfreeze), get, match, contains, len, dumps or loads changes a
\* registry that is frozen: it stays frozen, with the same chains and the
\* same handler count, in every later state.
C14_FreezePermanent ==
    [][\A r \in RegIds :
          (regs[r].exists /\ regs[r].frozen) => regs'[r] = regs[r]]_vars

\* an override of identity 1 was accepted by an unfrozen copy of the frozen
\* default registry, whose own chain for identity 1 is as it was
C14_Witness ==
    /\ call.op = "register"
    /\ call.r = "c"
    /\ call.override
    /\ call.exc = "none"
    /\ call.handler.identity = 1
    /\ Len(chain_of(regs["c"], 1)) = 2
    /\ regs["r"].frozen
    /\ chain_of(regs["r"], 1) = <<DateTimeHandler("r")>>

(***************************************************************************)
(* A registry built by its owner and a copy of it: handlers are registered *)
(* on both, before and after the copy is made.                             *)
(***************************************************************************)
\* the handlers registered: two application handlers of one identity and of
\* different types, one of them constructed with the registry, the
\* built-in handler that reaches its registry through a delegate, and a
\* handler whose identity is above both ranges
CopyHandlersFor(x) ==
    {Handler("Plain", 33, "T1", "none"), Handler("Backref", 33, "T2", x),
     XMLRPCDateTimeHandler(x), Handler("Plain", 128, "T1", "none")}

CopyIdents == {6, 33, 128}

CopyNext ==
    \/ \E r \in RegIds, reserved \in BOOLEAN, override \in BOOLEAN :
         \E handler \in CopyHandlersFor(r) :
            Register(r, handler, reserved, override, MaxCopyHandlers)
    \/ \E r \in RegIds : Freeze(r)
    \/ \E unfreeze \in BOOLEAN : Copy(unfreeze)
    \/ \E r \in RegIds, identity \in CopyIdents : Get(r, identity)

SpecCopy == RegInit /\ [][CopyNext]_vars

\* the handler instances of the first n identities of a registry
RECURSIVE instances(_, _)
instances(reg, n) ==
    IF n = 0 THEN 0
    ELSE instances(reg, n - 1) + Len(reg.handlers[n].chain)

\* C15: in every registry reached from an empty one by register calls
\* (accepted or rejected, with or without override) and copy calls, len()
\* is the number of handler instances over all chains, the overridden
\* handlers behind the front of a chain included.
C15_LenCountsInstances ==
    \A r \in RegIds :
        regs[r].exists
            => len(regs[r]) = instances(regs[r], Len(regs[r].handlers))

\* a register call was rejected by a copy that holds an overridden handler
\* behind the front of a chain
C15_Witness ==
    /\ call.op = "register"
    /\ call.r = "c"
    /\ call.exc = "ValueError: already registered"
    /\ contains(regs["c"], 33)
    /\ Len(chain_of(regs["c"], 33)) = 2
    /\ len(regs["c"]) = 2

\* C16: copy(unfreeze) returns a registry whose frozen flag is the source's
\* flag when unfreeze is false and is false when unfreeze is true; a copy of
\* an unfrozen registry is never frozen.
C16_CopyFrozenFlag ==
    call.op = "copy"
        => /\ (~call.unfreeze => regs["c"].frozen = call.pre.frozen)
           /\ (call.unfreeze => ~regs["c"].frozen)
           /\ (~call.pre.frozen => ~regs["c"].frozen)

\* a frozen registry holding handlers was copied with unfreeze=True
C16_Witness ==
    /\ call.op = "copy"
    /\ call.unfreeze
    /\ call.pre.frozen
    /\ len(call.pre) = 2
    /\ ~regs["c"].frozen
    /\ regs["r"].frozen

\* every handler of reg that holds a registry, itself or in its delegate,
\* holds the registry named x
RefersTo(reg, x) ==
    \A i \in 1..Len(reg.handlers) :
        \A j \in 1..Len(reg.handlers[i].chain) :
            reg.handlers[i].chain[j].registry \in {"none", x}

DateOverride == Handler("AppHandler", 7, "AppType", "none")

\* datetime.datetime is a subclass of datetime.date, so DateHandler matches
\* what DateTimeHandler matches
MatchHandlers ==
    {DateTimeHandler("r"), DateHandler("r"), DateOverride, AppHandler}

MatchIdents == {1, 7, 50}

\* values matched: a timestamp, a date, an application value and a value no
\* handler of MatchHandlers handles
MatchValues ==
    { <<"datetime",
        [year |-> 2020, month |-> 1, day |-> 31, hour |-> 23, minute |-> 0,
         second |-> 59, microsecond |-> 7, tzinfo |-> NoTz]>>,
      <<"date", [year |-> 2020, month |-> 12, day |-> 31]>>,
      AppValue,
      <<"UUID", "c9bf9e57147649e2b2d4c1a0b2e0f7a1">> }

MatchNext ==
    \/ \E reserved \in BOOLEAN, override \in BOOLEAN :
         \E handler \in MatchHandlers :
            Register("r", handler, reserved, override, MaxHandlers)
    \/ \E obj \in MatchValues : Match("r", obj)
    \/ \E identity \in MatchIdents : Get("r", identity)

SpecMatch == RegInit /\ [][MatchNext]_vars

\* the handler at position j of the chain of the i-th identity registered
At(reg, i, j) == reg.handlers[i].chain[j]

\* the positions of a registry, and the order match visits them in
Positions(reg) ==
    UNION { { <<i, j>> : j \in 1..Len(reg.handlers[i].chain) } :
              i \in 1..Len(reg.handlers) }

Before(p, q) == p[1] < q[1] \/ (p[1] = q[1] /\ p[2] < q[2])

\* the handler at position p handles the runtime type of obj or a supertype
Handles(reg, p, obj) == At(reg, p[1], p[2]).handles \in Mro(type(obj))

\* C18: match(value) returns the first handler, identities taken in the
\* order they were first registered and each chain from front to back,
\* whose handled type is the runtime type of the value or a supertype of
\* it; it returns None exactly when no handler of the registry, the
\* overridden ones behind a chain front included, handles the value.
C18_MatchFirstInOrder ==
    call.op = "match"
        => LET reg == regs[call.r]
               hits == { p \in Positions(reg) : Handles(reg, p, call.obj) }
           IN /\ (call.result = NoHandler <=> hits = {})
              /\ hits # {}
                   => \E p \in hits :
                         /\ \A q \in hits : q = p \/ Before(p, q)
                         /\ call.result = At(reg, p[1], p[2])

\* a timestamp was matched in a registry where the date handler was
\* registered first and later overridden by an application handler: the
\* match is the date handler behind the front of its chain, ahead of the
\* timestamp handler
C18_Witness ==
    /\ call.op = "match"
    /\ type(call.obj) = "datetime"
    /\ Len(regs["r"].handlers) = 2
    /\ regs["r"].handlers[1].chain = <<DateOverride, DateHandler("r")>>
    /\ regs["r"].handlers[2].chain = <<DateTimeHandler("r")>>
    /\ call.result = DateHandler("r")

(***************************************************************************)
(* Payloads of the timestamp and date handlers whose field names arrive as *)
(* text or as binary (DateTimeHandler.deserialize, DateHandler.deserialize)*)
(***************************************************************************)
\* the fields of the payloads decoded
PayloadFields ==
    [day |-> 31, month |-> 12, year |-> 2020, hour |-> 23, minute |-> 0,
     second |-> 59, microsecond |-> 7]

\* a field name as a key: bytes when the name is in binary, text otherwise
payload_key(name, binary) ==
    IF name \in binary THEN Bytes(<<"raw", name>>) ELSE Str(name)

\* the value under a key: the field's integer, and for tz a zone key
\* written, as the older convention did, the way its key is
payload_value(name, binary) ==
    IF name # "tz" THEN Integer(PayloadFields[name])
    ELSE IF name \in binary THEN Bytes(<<"raw", "UTC">>)
    ELSE Str("UTC")

\* the record a payload holds: the fields named by keys, in that order
payload_record(keys, binary) ==
    Dict([i \in 1..Len(keys) |->
            <<payload_key(keys[i], binary), payload_value(keys[i], binary)>>])

\* the key orders of the payloads: a date, a naive timestamp and a
\* timestamp with a zone
PayloadKeys ==
    [DateHandler |-> {DateKeys},
     DateTimeHandler |-> {DateTimeKeys, DateTimeKeys \o <<"tz">>}]

\* the decode calls: a handler, the keys of its payload and which of them
\* are binary
RekeyCalls ==
    { [op |-> "call", handler |-> h, keys |-> ks, binary |-> b] :
        h \in {DateHandler("default"), DateTimeHandler("default")},
        ks \in PayloadKeys.DateHandler \cup PayloadKeys.DateTimeHandler,
        b \in SUBSET (SeqToSet(DateTimeKeys) \cup {"tz"}) }

RekeyInit ==
    /\ regs = [r \in RegIds |-> NoRegistry]
    /\ call \in { c \in RekeyCalls :
                    /\ c.keys \in PayloadKeys[c.handler.cls]
                    /\ c.binary \subseteq SeqToSet(c.keys) }

\* handler.deserialize(blob) for the packed record
Deserialize ==
    /\ call.op = "call"
    /\ call' = [op |-> "deserialize", handler |-> call.handler,
                keys |-> call.keys, binary |-> call.binary,
                result |-> deserialize(call.handler,
                               dumps(payload_record(call.keys, call.binary),
                                     call.handler.registry))]
    /\ UNCHANGED regs

RekeyNext == Deserialize

SpecRekey == RekeyInit /\ [][RekeyNext]_vars

\* the value the fields stand for
Decoded(keys, zone) ==
    IF keys = DateKeys
    THEN <<"date", [year |-> PayloadFields.year,
                    month |-> PayloadFields.month,
                    day |-> PayloadFields.day]>>
    ELSE <<"datetime",
           [year |-> PayloadFields.year, month |-> PayloadFields.month,
            day |-> PayloadFields.day, hour |-> PayloadFields.hour,
            minute |-> PayloadFields.minute, second |-> PayloadFields.second,
            microsecond |-> PayloadFields.microsecond, tzinfo |-> zone]>>

\* the zone a payload with these keys names
ZoneNamed(keys) ==
    IF \E i \in 1..Len(keys) : keys[i] = "tz" THEN ZoneInfoOf("UTC") ELSE NoTz

\* C19 as stated: a payload of handler 1 or 7 decodes to the value its
\* fields stand for, without error, whichever of its keys are binary: all,
\* none or some of them.
C19_AnyBinaryKeyAsStated ==
    call.op = "deserialize"
        => call.result = Decoded(call.keys, ZoneNamed(call.keys))

\* C19: a payload of handler 1 or 7 decodes to the value its fields stand
\* for when all its keys are text or all are binary (the binary key b'day'
\* triggers decoding every key, and the tz value, as ASCII).  A payload
\* mixing text and binary keys is not re-keyed as a whole: with b'day'
\* binary the decode of a text key raises AttributeError; with 'day' text
\* the record is left as it is and a binary field name raises KeyError, or,
\* when tz is the only binary key, the zone is dropped.
C19_UniformKeysDecode ==
    call.op = "deserialize"
        => LET all == SeqToSet(call.keys)
           IN /\ call.binary \in {{}, all}
                   => call.result = Decoded(call.keys, ZoneNamed(call.keys))
              /\ (call.binary \notin {{}, all} /\ "day" \in call.binary)
                   => /\ IsRaise(call.result)
                      /\ call.result[2] = "AttributeError"
              /\ (call.binary \notin {{}, all, {"tz"}}
                    /\ "day" \notin call.binary)
                   => /\ IsRaise(call.result)
                      /\ call.result[2] = "KeyError"
              /\ (call.binary = {"tz"} /\ all # {"tz"})
                   => call.result = Decoded(call.keys, NoTz)

\* a timestamp payload with a zone, every key and the zone key binary, was
\* decoded to the timestamp in that zone
C19_Witness ==
    /\ call.op = "deserialize"
    /\ call.handler = DateTimeHandler("default")
    /\ call.keys = DateTimeKeys \o <<"tz">>
    /\ call.binary = SeqToSet(call.keys)
    /\ call.result = Decoded(call.keys, ZoneInfoOf("UTC"))

\* get(h.identity) is the handler h that match returned, or match found none
Agree(reg, h) == h = NoHandler \/ get(reg, h.identity) = h

\* C20: in every registry reached by register calls, override registrations
\* of a handler for another type included, the handler match(v) returns for
\* a value v is the handler get returns for that handler's identity: the
\* handler that decodes an extension record is the one that encoded it.
C20_MatchGetAgree ==
    \A v \in MatchValues : Agree(regs["r"], match(regs["r"], v))

\* C21: a register call that fails (frozen registry, identity outside the
\* selected range, or duplicate identity without override) leaves the
\* registry as it was: the same identities in the same order, every chain
\* in the same order, the same handler count and the same frozen flag.
C21_FailedRegisterNoEffect ==
    (call.op = "register" /\ call.exc # "none")
        => /\ post.handlers = call.pre.handlers
           /\ post.num_handlers = call.pre.num_handlers
           /\ post.frozen = call.pre.frozen

\* a duplicate registration without override failed on a registry of two
\* identities whose chain for that identity held two handlers
C21_Witness ==
    /\ call.op = "register"
    /\ call.exc = "ValueError: already registered"
    /\ Len(call.pre.handlers) = 2
    /\ call.pre.num_handlers = 3
    /\ Len(chain_of(call.pre, call.handler.identity)) = 2

\* the registry that is not x
Other(x) == IF x = "r" THEN "c" ELSE "r"

\* the mapping, the chains, the count and the flag of registry y are the
\* same before and after the step
Untouched(y) ==
    /\ regs'[y].handlers = regs[y].handlers
    /\ regs'[y].num_handlers = regs[y].num_handlers
    /\ regs'[y].frozen = regs[y].frozen

\* C22: once a registry has been copied, a register call on the copy, for a
\* new identity or as an override of one the source has, leaves the source's
\* mapping, chain order, handler count and frozen flag as they were, and a
\* register call on the source leaves the copy as it was.
C22_CopyIndependent ==
    [][(call'.op = "register" /\ regs[Other(call'.r)].exists)
          => Untouched(Other(call'.r))]_vars

\* an override was accepted by the unfrozen copy of a registry that is
\* frozen, for an identity the source has: the copy's chain has two
\* handlers, the source's still one
C22_Witness ==
    /\ call.op = "register"
    /\ call.r = "c"
    /\ call.override
    /\ call.exc = "none"
    /\ regs["r"].frozen
    /\ contains(regs["r"], call.handler.identity)
    /\ Len(chain_of(regs["r"], call.handler.identity)) = 1
    /\ Len(chain_of(regs["c"], call.handler.identity)) = 2

\* the identities a caller may ask get and contains about: those tried by
\* register and the ends of the two ranges
AskedIdents == CopyIdents \cup {-1, 0, 32, 127}

\* the registry reg is well formed
WellFormed(reg) ==
    /\ \A i \in 1..Len(reg.handlers) :
          /\ reg.handlers[i].ident \in 0..127
          /\ Len(reg.handlers[i].chain) > 0
          /\ \A j \in 1..Len(reg.handlers[i].chain) :
                reg.handlers[i].chain[j].identity = reg.handlers[i].ident
    /\ \A i \in AskedIdents :
          (get(reg, i) # NoHandler) <=> contains(reg, i)

\* C23: in every registry reached from an empty one by register and copy
\* calls, every identifier of the mapping lies in 0..127, every chain is
\* non-empty, every handler in the chain of identifier i has identity i, and
\* get(i) returns a handler exactly when contains(i) is true.
C23_WellFormed == \A r \in RegIds : regs[r].exists => WellFormed(regs[r])

\* a registry and its copy both hold handlers, the copy a chain of two for
\* an identity the source has one handler for, after a registration of an
\* identity above 127 was attempted
C23_Witness ==
    /\ call.op = "register"
    /\ call.handler.identity = 128
    /\ regs["r"].exists
    /\ regs["c"].exists
    /\ contains(regs["r"], 33)
    /\ contains(regs["c"], 33)
    /\ Len(chain_of(regs["r"], 33)) = 1
    /\ Len(chain_of(regs["c"], 33)) = 2

(***************************************************************************)
(* The JSON text codec (jsonutils.dumps, dump_as_bytes, dump over         *)
(* json.JSONEncoder) and the serializer object built on it                 *)
(* (serializer/json_serializer.py).  Text is a sequence of chunks, in the  *)
(* order the encoder yields them.                                          *)
(***************************************************************************)
\* the objects the values serialized refer to: one no rule of to_primitive
\* matches
SerializerHeap == NoMatchHeap

\* the converters handed to the encoder: jsonutils.to_primitive and a
\* caller's function, repr
Converters == {"to_primitive", "repr"}

\* default(o), as the encoder calls it: with one argument
apply_default(default, o) ==
    IF default = "to_primitive"
    THEN to_primitive(SerializerHeap, o, FALSE, TRUE, 0, 3, "None", 1).out
    ELSE <<"repr", o>>

\* the types json encodes as a literal, and those it accepts as a dict key
JsonLiterals == _simple_types \cup StringTypes

\* what the encoder has yielded and the exception that ended it, if any
Encoded(chunks, exc) == [chunks |-> chunks, exc |-> exc]

\* the first of the outcomes rs (kept in a function of 1..n) that is a
\* failure, 0 when none is
first_failure(failed, n) ==
    IF \E i \in 1..n : failed[i]
    THEN CHOOSE i \in 1..n : failed[i] /\ \A j \in 1..(i - 1) : ~failed[j]
    ELSE 0

\* the chunks of the first n elements of a list, each after its separator
RECURSIVE list_items(_, _)
list_items(rs, n) ==
    IF n = 0 THEN <<>>
    ELSE list_items(rs, n - 1)
         \o (IF n = 1 THEN <<"[">> ELSE <<", ">>) \o rs[n].chunks

\* _iterencode_list given the encodings rs of the elements
list_encoded(rs, bad) ==
    IF rs = <<>> THEN Encoded(<<"[]">>, "none")
    ELSE IF bad # 0 THEN Encoded(list_items(rs, bad), rs[bad].exc)
    ELSE Encoded(list_items(rs, Len(rs)) \o <<"]">>, "none")

\* a dict key as the encoder writes it: a string as it is, None, a boolean
\* or a number through its text
key_chunk(k) ==
    IF type(k) \in StringTypes THEN <<"json", k>>
    ELSE <<"json", <<"keyof", k>>>>

\* the chunks of the first n entries of a dict; the entry whose key is
\* refused yields nothing, not even its separator
RECURSIVE dict_items(_, _, _)
dict_items(pairs, rs, n) ==
    IF n = 0 THEN <<"{">>
    ELSE dict_items(pairs, rs, n - 1)
         \o (IF type(pairs[n][1]) \notin JsonLiterals THEN <<>>
             ELSE (IF n = 1 THEN <<>> ELSE <<", ">>)
                  \o <<key_chunk(pairs[n][1]), ": ">> \o rs[n].chunks)

\* _iterencode_dict given the encodings rs of the values
dict_encoded(pairs, rs, bad) ==
    IF pairs = <<>> THEN Encoded(<<"{}">>, "none")
    ELSE IF bad = 0
    THEN Encoded(dict_items(pairs, rs, Len(pairs)) \o <<"}">>, "none")
    ELSE Encoded(dict_items(pairs, rs, bad),
                 IF type(pairs[bad][1]) \notin JsonLiterals
                 THEN Raise("TypeError", "keys must be str, int, float, bool or None")
                 ELSE rs[bad].exc)

\* json.JSONEncoder(default=default).iterencode(o): a literal, a list, a
\* dict, or the encoding of default(o); a default that hands o back is
\* stopped by the circular reference check
RECURSIVE iterencode(_, _), encode_converted(_, _, _)
iterencode(o, default) ==
    CASE type(o) \in JsonLiterals -> Encoded(<<<<"json", o>>>>, "none")
      [] type(o) = "list" ->
           list_encoded(
              [i \in 1..Len(o[2]) |-> iterencode(o[2][i], default)],
              first_failure(
                 [i \in 1..Len(o[2]) |->
                    iterencode(o[2][i], default).exc # "none"],
                 Len(o[2])))
      [] type(o) = "dict" ->
           dict_encoded(
              o[2],
              [i \in 1..Len(o[2]) |-> iterencode(o[2][i][2], default)],
              first_failure(
                 [i \in 1..Len(o[2]) |->
                    \/ type(o[2][i][1]) \notin JsonLiterals
                    \/ iterencode(o[2][i][2], default).exc # "none"],
                 Len(o[2])))
      [] OTHER -> encode_converted(o, apply_default(default, o), default)

encode_converted(o, converted, default) ==
    IF IsRaise(converted) THEN Encoded(<<>>, converted)
    ELSE IF converted = o
    THEN Encoded(<<>>, Raise("ValueError", "Circular reference detected"))
    ELSE iterencode(converted, default)

\* a str of the chunks, or the exception
text_of(e) == IF e.exc # "none" THEN e.exc ELSE <<"text", e.chunks>>

\* jsonutils.dumps(obj, default=default)
jsonutils_dumps(obj, default) == text_of(iterencode(obj, default))

\* the byte form of an encoding: the encoder's output is ASCII, which
\* utf-8, ascii and latin-1 write as the same bytes
ByteForm(encoding) ==
    IF encoding \in {"utf-8", "ascii", "latin-1"} THEN "ascii" ELSE encoding

\* text.encode(encoding)
str_encode(text, encoding) ==
    IF IsRaise(text) THEN text
    ELSE Bytes(<<"encoded", ByteForm(encoding), text[2]>>)

\* data.decode(encoding)
bytes_decode(data, encoding) ==
    IF IsRaise(data) THEN data
    ELSE IF data[2][2] = ByteForm(encoding) THEN <<"text", data[2][3]>>
    ELSE Raise("UnicodeDecodeError", encoding)

\* jsonutils.dump_as_bytes(obj, default=default, encoding=encoding)
jsonutils_dump_as_bytes(obj, default, encoding) ==
    str_encode(jsonutils_dumps(obj, default), encoding)

\* the stream fp after the encoder's chunks were written to it, and the
\* exception raised
written(fp, e) == [fp |-> fp \o e.chunks, exc |-> e.exc]

\* the keyword arguments of a call that passes none
NoKwargs == [default |-> "absent"]

\* jsonutils.dump(obj, fp, **kwargs): default is read from kwargs and then
\* passed to json.dump next to **kwargs, so a caller's default arrives twice
jsonutils_dump(obj, fp, kwargs) ==
    IF kwargs.default # "absent"
    THEN [fp |-> fp,
          exc |-> Raise("TypeError",
                        "multiple values for keyword argument 'default'")]
    ELSE written(fp, iterencode(obj, "to_primitive"))

\* JSONSerializer.__init__
JSONSerializer(default, encoding) == [default |-> default, encoding |-> encoding]

\* JSONSerializer.dump_as_bytes
dump_as_bytes(self, obj) ==
    jsonutils_dump_as_bytes(obj, self.default, self.encoding)

\* JSONSerializer.dump: jsonutils.dump(obj, fp), no keyword passed on
dump(self, obj, fp) == jsonutils_dump(obj, fp, NoKwargs)

\* the values serialized: literals, containers, values the converter is
\* called for (alone, in a list, under a key), an object to_primitive has
\* no rule for and a dict whose key json refuses
SerializerValues ==
    { None, Integer(1), Str("a"), Bool(TRUE),
      List(<<>>), List(<<Integer(1), Str("a")>>),
      Dict(<<<<Str("k"), Integer(1)>>>>), Dict(<<<<Integer(1), Str("a")>>>>),
      Bytes(<<"raw", "a">>),
      <<"UUID", "c9bf9e57147649e2b2d4c1a0b2e0f7a1">>,
      <<"datetime", [year |-> 1920, month |-> 2, day |-> 3, hour |-> 4,
                     minute |-> 5, second |-> 6, microsecond |-> 7,
                     tzinfo |-> NoTz]>>,
      List(<<Integer(1),
             <<"date", [year |-> 1920, month |-> 2, day |-> 3]>>>>),
      Dict(<<<<Str("k"), <<"UUID", "c9bf9e57147649e2b2d4c1a0b2e0f7a1">>>>>>),
      Ref(1), List(<<Integer(1), Ref(1)>>),
      Dict(<<<<Str("k"), Integer(1)>>,
             <<List(<<Integer(1)>>), Integer(2)>>>>) }

Encodings == {"utf-8", "utf-16"}

\* the result fields of a call before the method was called
NoStream == [fp |-> <<>>, exc |-> "none"]

\* a serializer, a value, the methods called so far and what each produced
SerializerInit ==
    /\ regs = [r \in RegIds |-> NoRegistry]
    /\ call \in { [op |-> "serialize",
                   self |-> JSONSerializer(default, encoding), obj |-> obj,
                   done |-> {}, stream |-> NoStream, bytes |-> None,
                   direct |-> NoStream] :
                   default \in Converters, encoding \in Encodings,
                   obj \in SerializerValues }

\* self.dump(obj, fp) on an empty stream
Dump ==
    /\ call.op = "serialize"
    /\ "dump" \notin call.done
    /\ call' = [call EXCEPT !.done = @ \cup {"dump"},
                            !.stream = dump(call.self, call.obj, <<>>)]
    /\ UNCHANGED regs

\* self.dump_as_bytes(obj)
DumpAsBytes ==
    /\ call.op = "serialize"
    /\ "dump_as_bytes" \notin call.done
    /\ call' = [call EXCEPT !.done = @ \cup {"dump_as_bytes"},
                            !.bytes = dump_as_bytes(call.self, call.obj)]
    /\ UNCHANGED regs

\* jsonutils.dump(obj, fp, default=self._default), the call that would hand
\* the configured converter to the stream path
DumpWithDefault ==
    /\ call.op = "serialize"
    /\ "jsonutils.dump" \notin call.done
    /\ call' = [call EXCEPT
                  !.done = @ \cup {"jsonutils.dump"},
                  !.direct = jsonutils_dump(call.obj, <<>>,
                                 [default |-> call.self.default])]
    /\ UNCHANGED regs

SerializerNext == Dump \/ DumpAsBytes \/ DumpWithDefault

SpecSerializer == SerializerInit /\ [][SerializerNext]_vars

\* the text the stream holds, or the exception dump ended with
stream_text(w) == IF w.exc # "none" THEN w.exc ELSE <<"text", w.fp>>

\* C24: for every serializer configuration (a caller's converter and text
\* encoding included) and every value, dump(obj, stream) writes the text
\* that dump_as_bytes(obj) returns once decoded with the serializer's
\* encoding; both raise or neither does.
C24_DumpPathsAgree ==
    (call.op = "serialize" /\ {"dump", "dump_as_bytes"} \subseteq call.done)
        => stream_text(call.stream)
             = bytes_decode(call.bytes, call.self.encoding)

====
